---- MODULE Spec2Model ----
(***************************************************************************)
(* Model of turnkey-chroot (src/chroot/__init__.py): the MagicMounts mount *)
(* orchestrator, the Chroot session that owns it and the `mount` context   *)
(* manager.  The host mount table (/proc/mounts) and the outcome of every  *)
(* mount/umount/copy subprocess are the environment: the table is a state  *)
(* variable, the outcomes are inputs of the actions.  Every external call  *)
(* a method makes is recorded, in order, in the record of that call.       *)
(* Chroot.run and is_mounted, as called by the program on a session that   *)
(* is open, have a specification of their own (ApiSpec), and so has a      *)
(* process that opens one session after another (SessionsSpec).            *)
(***************************************************************************)
EXTENDS Integers, Sequences, FiniteSets, TLC

(* ------------------------------- bounds -------------------------------- *)

\* constructions of a Chroot in one process
MaxSessions == 1
\* explicit MagicMounts.mount()/umount() calls on one instance
MaxCalls == 1
\* umount commands that fail during one umount() call
MaxFailing == 1
\* targets present in /proc/mounts before the process starts
MaxPreMounted == 1

(* --------------------------- module constants -------------------------- *)

MNT_DEFAULT ==
  << <<"-t", "proc", "proc">>,
     <<"-t", "sysfs", "sys">>,
     <<"-t", "devpts", "dev/pts">> >>

\* the value of the module-level list MNT_FULL when the module is loaded
MNT_FULL_loaded ==
  << <<"--bind", "/proc", "proc">>,
     <<"--bind", "/sys", "sys">>,
     <<"--bind", "/dev", "dev">>,
     <<"--bind", "/dev/pts", "dev/pts">>,
     <<"--bind", "/run", "run">> >>

MNT_ARM_ON_AMD ==
  <<"--bind", "/proc/sys/fs/binfmt_misc", "proc/sys/fs/binfmt_misc">>

qemu_arch_bin == "usr/bin/qemu-aarch64-static"

(* ------------------------------- inputs -------------------------------- *)

\* values of the HOST_ARCH and FAB_ARCH environment variables ("" = unset):
\* neither set, one of them set, both set and equal, both set and different
HostArchs == {"", "amd64"}
FabArchs == {"", "amd64", "arm64"}

\* a profile passed by the caller that is neither default nor full
MNT_CUSTOM == << <<"--bind", "/tmp", "tmp">> >>

\* the mnt_profile argument of Chroot(): <<>> stands for None / an empty list
ProfileArgs == {<<>>, MNT_CUSTOM}

\* canonical roots (the result of realpath(newroot))
Roots == {"/r"}

(* --------------------------- python primitives ------------------------- *)

\* the strings that occur in the profiles
Strings ==
  {"--bind", "-t", "/proc", "/sys", "/dev", "/dev/pts", "/run",
   "/proc/sys/fs/binfmt_misc", "proc", "sysfs", "devpts", "sys", "dev",
   "dev/pts", "run", "proc/sys/fs/binfmt_misc", "/tmp", "tmp"}

\* their code points (str comparison in python is by code point)
ord ==
  [s \in Strings |->
  CASE s = "--bind" -> <<45, 45, 98, 105, 110, 100>>
    [] s = "-t" -> <<45, 116>>
    [] s = "/proc" -> <<47, 112, 114, 111, 99>>
    [] s = "/sys" -> <<47, 115, 121, 115>>
    [] s = "/dev" -> <<47, 100, 101, 118>>
    [] s = "/dev/pts" -> <<47, 100, 101, 118, 47, 112, 116, 115>>
    [] s = "/run" -> <<47, 114, 117, 110>>
    [] s = "/proc/sys/fs/binfmt_misc" ->
         <<47, 112, 114, 111, 99, 47, 115, 121, 115, 47, 102, 115, 47,
           98, 105, 110, 102, 109, 116, 95, 109, 105, 115, 99>>
    [] s = "proc" -> <<112, 114, 111, 99>>
    [] s = "sysfs" -> <<115, 121, 115, 102, 115>>
    [] s = "devpts" -> <<100, 101, 118, 112, 116, 115>>
    [] s = "sys" -> <<115, 121, 115>>
    [] s = "dev" -> <<100, 101, 118>>
    [] s = "dev/pts" -> <<100, 101, 118, 47, 112, 116, 115>>
    [] s = "run" -> <<114, 117, 110>>
    [] s = "proc/sys/fs/binfmt_misc" ->
         <<112, 114, 111, 99, 47, 115, 121, 115, 47, 102, 115, 47,
           98, 105, 110, 102, 109, 116, 95, 109, 105, 115, 99>>
    [] s = "/tmp" -> <<47, 116, 109, 112>>
    [] s = "tmp" -> <<116, 109, 112>>]

\* x < y for two sequences of comparable items, as python orders sequences:
\* at the first index where they differ, or the shorter one when one is a
\* prefix of the other
SeqLess(x, y, less(_, _)) ==
  \E k \in 1..(Len(x) + 1) :
     /\ k <= Len(y)
     /\ \A j \in 1..(k - 1) : x[j] = y[j]
     /\ \/ k = Len(x) + 1
        \/ k <= Len(x) /\ less(x[k], y[k])

IntLess(a, b) == a < b

\* the pairs of profile strings a, b with a < b by code points
StrOrder ==
  {p \in Strings \X Strings : SeqLess(ord[p[1]], ord[p[2]], IntLess)}

\* str.__lt__
StrLess(a, b) == <<a, b>> \in StrOrder

\* tuple.__lt__ on tuples of str
TupleLess(a, b) == SeqLess(a, b, StrLess)

\* sorted() left out: the list as it is declared
sorted_declared(s) == s

\* the value of f(v), with v evaluated once
Let(v, f(_)) == CHOOSE r \in {f(x) : x \in {v}} : TRUE

\* sorted(list of tuples): the item at index i goes after the items less than
\* it and after the earlier items equal to it (the sort is stable)
sorted(s) ==
  LET rank(i) == Cardinality({j \in 1..Len(s) :
                                \/ TupleLess(s[j], s[i])
                                \/ j <= i /\ ~TupleLess(s[i], s[j])})
      place(r) == [k \in 1..Len(s) |-> s[CHOOSE i \in 1..Len(s) : r[i] = k]]
  IN  Let([i \in 1..Len(s) |-> rank(i)], place)

\* reversed() left out: the sequence in its own order
reversed_forward(s) == s

\* reversed(sequence)
reversed(s) == [i \in 1..Len(s) |-> s[Len(s) + 1 - i]]

\* os.path.join(root, rel) for a root without trailing slash and a relative rel
join(root, rel) == root \o "/" \o rel

(* -------------------------------- state -------------------------------- *)

VARIABLES
  MNT_FULL,          \* the module-level list MNT_FULL (mutable, shared)
  procMounts,        \* guest paths (second field) of the lines of /proc/mounts
  staged,            \* destinations at which a copied emulation binary exists
  HOST_ARCH,         \* os.getenv("HOST_ARCH") as the instance read it
  FAB_ARCH,          \* os.getenv("FAB_ARCH") as the instance read it
  pc,                \* "idle" | "in_scope" | "failed" | "left"
  sessions,          \* number of Chroot constructions so far
  profile,           \* Chroot.profile
  chr_path,          \* Chroot.chr_path
  paths,             \* MagicMounts.paths
  mounted,           \* MagicMounts.mounted
  qemu_arch_static,  \* MagicMounts.qemu_arch_static
  error,             \* what the construction raised ("none" if it returned)
  calls,             \* the mount()/umount() calls made on the instance;
                     \* once it is destroyed, the call made by __del__
  command,           \* the argv handed to Chroot.run
  run_pc,            \* "ready" | "done": Chroot.run has been called
  run_raised,        \* what Chroot.run raised ("none" if it returned)
  spawned,           \* the argument lists Chroot.run gave to subprocess.run
  asked,             \* the path handed to is_mounted by a caller
  answer             \* "none" | "True" | "False": what is_mounted returned

vars == <<MNT_FULL, procMounts, staged, HOST_ARCH, FAB_ARCH, pc, sessions,
          profile, chr_path, paths, mounted, qemu_arch_static,
          error, calls, command, run_pc, run_raised, spawned, asked, answer>>

\* the state of the calls of Chroot.run and is_mounted made by the program
apiVars == <<command, run_pc, run_raised, spawned, asked, answer>>

(* --------------------------- mount-table query ------------------------- *)

\* a python str holding the path s
Str(s) == [kind |-> "str", name |-> s]

\* os.fspath: str and bytes are returned as they are, a path-like object
\* gives its str
fspath(path) ==
  IF path.kind = "pathlike" THEN [kind |-> "str", name |-> path.name]
  ELSE path

\* is_mounted(path) against the table whose lines have the guest paths `table`:
\* the file is read in the mode of raw_path and each guest field is compared
\* with `path` itself
is_mounted(table, path) ==
  LET raw_path == fspath(path)
      mode == IF raw_path.kind = "bytes" THEN "rb" ELSE "r"
      guest(g) == [kind |-> IF mode = "rb" THEN "bytes" ELSE "str", name |-> g]
  IN  \E g \in table : guest(g) = path

(* ------------------------------ MagicMounts ---------------------------- *)

\* one external call made by a method: a mount-table query, a subprocess or a
\* file operation, with its outcome
Cmd(c, args, t, ok) == [cmd |-> c, args |-> args, target |-> t, ok |-> ok]

NoFlags == [t \in {} |-> FALSE]

\* MagicMounts.__init__ without the test for FAB_ARCH set and HOST_ARCH unset
MagicMounts_init_unchecked(mnt_profile, root, host_arch, fab_arch, full) ==
  LET mismatch == fab_arch # "" /\ host_arch # "" /\ host_arch # fab_arch
      full1 == IF mismatch THEN Append(full, MNT_ARM_ON_AMD) ELSE full
      ps == [i \in 1..Len(full1) |->
               <<sorted(full1)[i][1], sorted(full1)[i][2],
                 join(root, sorted(full1)[i][3])>>]
  IN  [raised |-> "none", MNT_FULL |-> full1, paths |-> ps,
       mounted |-> [t \in {ps[i][3] : i \in 1..Len(ps)} |-> FALSE],
       qemu_arch_static |->
         IF mismatch THEN <<"/" \o qemu_arch_bin, join(root, qemu_arch_bin)>>
         ELSE <<>>]

\* MagicMounts.__init__ up to (not including) the call of self.mount():
\* self.profile is the list MNT_FULL itself, whatever mnt_profile is
MagicMounts_init(mnt_profile, root, host_arch, fab_arch, full) ==
  LET mismatch == fab_arch # "" /\ host_arch # "" /\ host_arch # fab_arch
      full1 == IF mismatch THEN Append(full, MNT_ARM_ON_AMD) ELSE full
      self_profile == full1
      resolve(items) ==
        [i \in 1..Len(items) |->
           <<items[i][1], items[i][2], join(root, items[i][3])>>]
      object(ps) ==
        [raised |-> "none", MNT_FULL |-> full1, paths |-> ps,
         mounted |-> [t \in {ps[i][3] : i \in 1..Len(ps)} |-> FALSE],
         qemu_arch_static |->
           IF mismatch
           THEN <<"/" \o qemu_arch_bin, join(root, qemu_arch_bin)>>
           ELSE <<>>]
  IN  IF fab_arch # "" /\ host_arch = ""
      THEN [raised |-> "ChrootError", MNT_FULL |-> full, paths |-> <<>>,
            mounted |-> NoFlags, qemu_arch_static |-> <<>>]
      ELSE Let(Let(sorted(self_profile), resolve), object)

\* mount_item without the is_mounted skip: the mount command is run for a
\* target that is present too
mount_item_remount(item, m, table, bad) ==
  LET chr_mnt == item[3]
      present == is_mounted(table, Str(chr_mnt))
      ok == chr_mnt \notin bad
  IN  [mounted |-> IF ok THEN [m EXCEPT ![chr_mnt] = TRUE] ELSE m,
       table |-> IF ok THEN table \cup {chr_mnt} ELSE table,
       cmds |-> <<Cmd("is_mounted", <<>>, chr_mnt, present),
                  Cmd("mount", <<item[1], item[2]>>, chr_mnt, ok)>>,
       raised |-> IF ok THEN "none" ELSE "MountError"]

\* mount_item with the flag set before the mount command is run, so that it
\* stays set when the command fails
mount_item_flag_first(item, m, table, bad) ==
  LET chr_mnt == item[3]
      present == is_mounted(table, Str(chr_mnt))
      ok == chr_mnt \notin bad
      query == Cmd("is_mounted", <<>>, chr_mnt, present)
  IN  IF present
      THEN [mounted |-> [m EXCEPT ![chr_mnt] = TRUE], table |-> table,
            cmds |-> <<query>>, raised |-> "none"]
      ELSE [mounted |-> [m EXCEPT ![chr_mnt] = TRUE],
            table |-> IF ok THEN table \cup {chr_mnt} ELSE table,
            cmds |-> <<query, Cmd("mount", <<item[1], item[2]>>, chr_mnt, ok)>>,
            raised |-> IF ok THEN "none" ELSE "MountError"]

\* one pass of the for loop of MagicMounts.mount, for the entry item of
\* self.paths; bad: the targets for which the mount command exits non-zero
mount_item(item, m, table, bad) ==
  LET switch == item[1]
      host_mnt == item[2]
      chr_mnt == item[3]
      present == is_mounted(table, Str(chr_mnt))
      query == Cmd("is_mounted", <<>>, chr_mnt, present)
      run(ok) == Cmd("mount", <<switch, host_mnt>>, chr_mnt, ok)
  IN  IF present
      THEN [mounted |-> [m EXCEPT ![chr_mnt] = TRUE], table |-> table,
            cmds |-> <<query>>, raised |-> "none"]
      ELSE IF chr_mnt \in bad
      THEN [mounted |-> m, table |-> table,
            cmds |-> <<query, run(FALSE)>>, raised |-> "MountError"]
      ELSE [mounted |-> [m EXCEPT ![chr_mnt] = TRUE],
            table |-> table \cup {chr_mnt},
            cmds |-> <<query, run(TRUE)>>, raised |-> "none"]

RECURSIVE MountLoop(_, _, _, _, _, _)
\* the for loop of MagicMounts.mount from the i-th entry of self.paths on: it
\* ends with the first entry that raises
MountLoop(ps, i, m, table, cmds, bad) ==
  IF i > Len(ps)
  THEN [mounted |-> m, table |-> table, cmds |-> cmds, raised |-> "none"]
  ELSE LET s == mount_item(ps[i], m, table, bad)
       IN  IF s.raised # "none"
           THEN [mounted |-> s.mounted, table |-> s.table,
                 cmds |-> cmds \o s.cmds, raised |-> s.raised]
           ELSE MountLoop(ps, i + 1, s.mounted, s.table, cmds \o s.cmds, bad)

\* MagicMounts.mount; copyFails: shutil.copy raises
MagicMounts_mount(ps, m, qemu, table, files, bad, copyFails) ==
  LET r == MountLoop(ps, 1, m, table, <<>>, bad)
  IN  IF r.raised # "none" \/ qemu = <<>>
      THEN [mounted |-> r.mounted, table |-> r.table, files |-> files,
            cmds |-> r.cmds, raised |-> r.raised]
      ELSE IF copyFails
      THEN [mounted |-> r.mounted, table |-> r.table, files |-> files,
            cmds |-> Append(r.cmds, Cmd("copy", <<qemu[1]>>, qemu[2], FALSE)),
            raised |-> "OSError"]
      ELSE [mounted |-> r.mounted, table |-> r.table,
            files |-> files \cup {qemu[2]},
            cmds |-> Append(r.cmds, Cmd("copy", <<qemu[1]>>, qemu[2], TRUE)),
            raised |-> "none"]

\* umount_item that never clears the flag
umount_item_keep_flag(item, m, table, bad) ==
  LET chr_mnt == item[3]
      ok == chr_mnt \in table /\ chr_mnt \notin bad
  IN  IF m[chr_mnt]
      THEN [mounted |-> m,
            table |-> IF ok THEN table \ {chr_mnt} ELSE table,
            cmds |-> <<Cmd("umount", <<"-f">>, chr_mnt, ok)>>]
      ELSE [mounted |-> m, table |-> table, cmds |-> <<>>]

\* umount_item that clears the flag only when umount exited 0
umount_item_checked(item, m, table, bad) ==
  LET chr_mnt == item[3]
      ok == chr_mnt \in table /\ chr_mnt \notin bad
  IN  IF m[chr_mnt]
      THEN [mounted |-> IF ok THEN [m EXCEPT ![chr_mnt] = FALSE] ELSE m,
            table |-> IF ok THEN table \ {chr_mnt} ELSE table,
            cmds |-> <<Cmd("umount", <<"-f">>, chr_mnt, ok)>>]
      ELSE [mounted |-> m, table |-> table, cmds |-> <<>>]

\* one pass of the for loop of MagicMounts.umount, for the entry item of
\* reversed(self.paths); bad: the targets for which umount exits non-zero (as
\* it does for a target that is not mounted); the exit status is not looked at
umount_item(item, m, table, bad) ==
  LET chr_mnt == item[3]
      ok == chr_mnt \in table /\ chr_mnt \notin bad
  IN  IF m[chr_mnt]
      THEN [mounted |-> [m EXCEPT ![chr_mnt] = FALSE],
            table |-> IF ok THEN table \ {chr_mnt} ELSE table,
            cmds |-> <<Cmd("umount", <<"-f">>, chr_mnt, ok)>>]
      ELSE [mounted |-> m, table |-> table, cmds |-> <<>>]

RECURSIVE UmountLoop(_, _, _, _, _, _)
\* the for loop of MagicMounts.umount over rs = reversed(self.paths), from its
\* i-th entry on
UmountLoop(rs, i, m, table, cmds, bad) ==
  IF i > Len(rs)
  THEN [mounted |-> m, table |-> table, cmds |-> cmds]
  ELSE LET s == umount_item(rs[i], m, table, bad)
       IN  UmountLoop(rs, i + 1, s.mounted, s.table, cmds \o s.cmds, bad)

\* MagicMounts.umount with the emulation binary removed after the umount
\* commands
MagicMounts_umount_remove_last(ps, m, qemu, table, files, bad) ==
  LET removal == IF qemu = <<>> THEN <<>>
                 ELSE <<Cmd("remove", <<>>, qemu[2], qemu[2] \in files)>>
      files1 == IF qemu = <<>> THEN files ELSE files \ {qemu[2]}
      r == UmountLoop(reversed(ps), 1, m, table, <<>>, bad)
  IN  [mounted |-> r.mounted, table |-> r.table, files |-> files1,
       cmds |-> r.cmds \o removal, raised |-> "none"]

\* MagicMounts.umount
MagicMounts_umount(ps, m, qemu, table, files, bad) ==
  LET removal == IF qemu = <<>> THEN <<>>
                 ELSE <<Cmd("remove", <<>>, qemu[2], qemu[2] \in files)>>
      files1 == IF qemu = <<>> THEN files ELSE files \ {qemu[2]}
      r == UmountLoop(reversed(ps), 1, m, table, removal, bad)
  IN  [mounted |-> r.mounted, table |-> r.table, files |-> files1,
       cmds |-> r.cmds, raised |-> "none"]

\* the record of one mount()/umount() call on the instance
Call(op, r) == [op |-> op, cmds |-> r.cmds, raised |-> r.raised]

(* -------------------------------- inputs ------------------------------- *)

\* the absolute targets of a list of mount items under root
TargetsOf(items, root) == {join(root, items[i][3]) : i \in 1..Len(items)}

\* every target MagicMounts can look at
AllTargets ==
  UNION {TargetsOf(Append(MNT_FULL_loaded, MNT_ARM_ON_AMD), r) : r \in Roots}

\* the sets of at most n elements of S
UpTo(S, n) == {X \in SUBSET S : Cardinality(X) <= n}

(* ------------------------------- actions ------------------------------- *)

\* the targets of self.paths
Targets(ps) == {ps[i][3] : i \in 1..Len(ps)}

\* the outcomes of the umount commands of one umount() call on an instance
\* with the flags m: the mounted targets whose command exits non-zero (a
\* command is issued only for a flagged target, and fails anyway for a target
\* that is not mounted)
Failing(m, table) == UpTo({t \in DOMAIN m : m[t] /\ t \in table}, MaxFailing)

\* the outcomes of the mount commands of one mount() call: a command is issued
\* only for a target that is not in the mount table, and mount() stops at the
\* first command that exits non-zero, so one failing target (or none) among
\* those gives every outcome
FailingMount(ps, table) == {{}} \cup {{t} : t \in Targets(ps) \ table}

\* the outcomes of shutil.copy (it is called only with an emulation binary)
CopyFails(qemu) == IF qemu = <<>> THEN {FALSE} ELSE BOOLEAN

Init ==
  /\ MNT_FULL = MNT_FULL_loaded
  /\ procMounts \in UpTo(AllTargets, MaxPreMounted)
  /\ staged = {}
  /\ HOST_ARCH = ""
  /\ FAB_ARCH = ""
  /\ pc = "idle"
  /\ sessions = 0
  /\ profile = <<>>
  /\ chr_path = ""
  /\ paths = <<>>
  /\ mounted = NoFlags
  /\ qemu_arch_static = <<>>
  /\ error = "none"
  /\ calls = <<>>
  /\ command = <<>>
  /\ run_pc = "ready"
  /\ run_raised = "none"
  /\ spawned = <<>>
  /\ asked = Str("")
  /\ answer = "none"

\* Chroot(newroot, environ, mnt_profile) with HOST_ARCH and FAB_ARCH in the
\* environment: __init__ builds MagicMounts(self.profile, self.chr_path),
\* whose __init__ ends in self.mount()
Chroot(mnt_profile, root, host_arch, fab_arch) ==
  /\ pc = "idle"
  /\ \E self_profile \in {IF mnt_profile = <<>> THEN MNT_DEFAULT
                           ELSE mnt_profile} :
     \E mm \in {MagicMounts_init(self_profile, root, host_arch, fab_arch,
                                 MNT_FULL)} :
     \E bad \in FailingMount(mm.paths, procMounts),
        copyFails \in CopyFails(mm.qemu_arch_static) :
     \E r \in {MagicMounts_mount(mm.paths, mm.mounted, mm.qemu_arch_static,
                                 procMounts, staged, bad, copyFails)} :
         /\ sessions' = sessions + 1
         /\ HOST_ARCH' = host_arch
         /\ FAB_ARCH' = fab_arch
         /\ profile' = self_profile
         /\ chr_path' = root
         /\ MNT_FULL' = mm.MNT_FULL
         /\ paths' = mm.paths
         /\ qemu_arch_static' = mm.qemu_arch_static
         /\ IF mm.raised # "none"
            THEN /\ mounted' = mm.mounted
                 /\ error' = mm.raised
                 /\ calls' = <<>>
                 /\ pc' = "failed"
                 /\ UNCHANGED <<procMounts, staged>>
            ELSE /\ mounted' = r.mounted
                 /\ procMounts' = r.table
                 /\ staged' = r.files
                 /\ error' = r.raised
                 /\ calls' = <<Call("mount", r)>>
                 /\ pc' = IF r.raised = "none" THEN "in_scope" ELSE "failed"
  /\ UNCHANGED apiVars

\* `with mount(target, environ, mnt_profile) as mnt:` is entered: the context
\* manager builds Chroot(target, environ, mnt_profile)
Construct(mnt_profile, root, host_arch, fab_arch) ==
  /\ sessions < MaxSessions
  /\ Chroot(mnt_profile, root, host_arch, fab_arch)

\* mnt.magicmounts.mount() called inside the with body
Mount(bad, copyFails) ==
  /\ pc = "in_scope"
  /\ Len(calls) <= MaxCalls
  /\ \E r \in {MagicMounts_mount(paths, mounted, qemu_arch_static,
                                 procMounts, staged, bad, copyFails)} :
         /\ mounted' = r.mounted
         /\ procMounts' = r.table
         /\ staged' = r.files
         /\ calls' = Append(calls, Call("mount", r))
  /\ UNCHANGED <<MNT_FULL, HOST_ARCH, FAB_ARCH, pc, sessions,
                 profile, chr_path, paths, qemu_arch_static, error>>
  /\ UNCHANGED apiVars

\* mnt.magicmounts.umount() called inside the with body
Umount(bad) ==
  /\ pc = "in_scope"
  /\ Len(calls) <= MaxCalls
  /\ \E r \in {MagicMounts_umount(paths, mounted, qemu_arch_static,
                                  procMounts, staged, bad)} :
         /\ mounted' = r.mounted
         /\ procMounts' = r.table
         /\ staged' = r.files
         /\ calls' = Append(calls, Call("umount", r))
  /\ UNCHANGED <<MNT_FULL, HOST_ARCH, FAB_ARCH, pc, sessions,
                 profile, chr_path, paths, qemu_arch_static, error>>
  /\ UNCHANGED apiVars

\* the with body is left, normally or by an exception: the generator of the
\* context manager has nothing after its yield, and the Chroot stays bound to
\* the `as` name
Leave ==
  /\ pc = "in_scope"
  /\ pc' = "left"
  /\ UNCHANGED <<MNT_FULL, procMounts, staged, HOST_ARCH, FAB_ARCH, sessions,
                 profile, chr_path, paths, mounted, qemu_arch_static, error,
                 calls>>
  /\ UNCHANGED apiVars

\* the last reference to the Chroot and its MagicMounts goes away: __del__
\* calls umount() and the objects cease to exist.  When __init__ raised before
\* self.paths was set, umount() raises AttributeError, which the interpreter
\* ignores in __del__
Del(bad) ==
  /\ pc \in {"left", "failed"}
  /\ pc' = "idle"
  /\ IF error = "ChrootError"
     THEN /\ calls' = <<[op |-> "umount", cmds |-> <<>>,
                         raised |-> "AttributeError"]>>
          /\ UNCHANGED <<procMounts, staged>>
     ELSE \E r \in {MagicMounts_umount(paths, mounted, qemu_arch_static,
                                       procMounts, staged, bad)} :
              /\ procMounts' = r.table
              /\ staged' = r.files
              /\ calls' = <<Call("umount", r)>>
  /\ HOST_ARCH' = ""
  /\ FAB_ARCH' = ""
  /\ profile' = <<>>
  /\ chr_path' = ""
  /\ paths' = <<>>
  /\ mounted' = NoFlags
  /\ qemu_arch_static' = <<>>
  /\ error' = "none"
  /\ UNCHANGED <<MNT_FULL, sessions>>
  /\ UNCHANGED apiVars

Next ==
  \/ \E mnt_profile \in ProfileArgs, root \in Roots,
        host_arch \in HostArchs, fab_arch \in FabArchs :
       Construct(mnt_profile, root, host_arch, fab_arch)
  \/ \E bad \in FailingMount(paths, procMounts),
        copyFails \in CopyFails(qemu_arch_static) :
       Mount(bad, copyFails)
  \/ \E bad \in Failing(mounted, procMounts) : Umount(bad)
  \/ Leave
  \/ \E bad \in Failing(mounted, procMounts) : Del(bad)

Spec == Init /\ [][Next]_vars

(* ------------------------ one session after another ------------------- *)

\* constructions of a Chroot, one after the other, in one process
MaxRebuilds == 2

\* the with statement is entered once more, the Chroot of the with statement
\* before it being gone
Rebuild(mnt_profile, root, host_arch, fab_arch) ==
  /\ sessions < MaxRebuilds
  /\ Chroot(mnt_profile, root, host_arch, fab_arch)

\* a process that opens sessions one after the other; inside a session it
\* may call umount() itself
SessionsNext ==
  \/ \E mnt_profile \in ProfileArgs, root \in Roots,
        host_arch \in HostArchs, fab_arch \in FabArchs :
       Rebuild(mnt_profile, root, host_arch, fab_arch)
  \/ \E bad \in Failing(mounted, procMounts) : Umount(bad)
  \/ Leave
  \/ \E bad \in Failing(mounted, procMounts) : Del(bad)

SessionsSpec == Init /\ [][SessionsNext]_vars

(* ------------------------------ Chroot.run ----------------------------- *)

\* arguments of one Chroot.run call
MaxArgc == 2

\* command tokens, each a python str written as the sequence of its
\* characters: "", ls, a b, c'd, >, <, |, a>, ", $a, \, ', ;
Tokens ==
  {<<>>, <<"l", "s">>, <<"a", " ", "b">>, <<"c", "'", "d">>,
   <<">">>, <<"<">>, <<"|">>, <<"a", ">">>, <<"\"">>, <<"$", "a">>,
   <<"\\">>, <<"'">>, <<";">>}

\* the argument lists handed to Chroot.run
Argvs == UNION {[1..n -> Tokens] : n \in 0..MaxArgc}

\* the characters shlex.quote leaves unquoted ([\w@%+=:,./-], ASCII), among
\* those of the tokens
SafeChars == {"a", "b", "c", "d", "l", "s"}

RECURSIVE replace(_)
\* s.replace("'", "'\"'\"'")
replace(s) ==
  IF s = <<>> THEN <<>>
  ELSE (IF Head(s) = "'" THEN <<"'", "\"", "'", "\"", "'">> ELSE <<Head(s)>>)
         \o replace(Tail(s))

\* shlex.quote without any quoting
quote_bare(s) == s

\* shlex.quote
quote(s) ==
  IF s = <<>> THEN <<"'", "'">>
  ELSE IF \A i \in 1..Len(s) : s[i] \in SafeChars THEN s
  ELSE <<"'">> \o replace(s) \o <<"'">>

RECURSIVE join_blank(_)
\* ' '.join(list of str)
join_blank(ws) ==
  IF ws = <<>> THEN <<>>
  ELSE IF Len(ws) = 1 THEN ws[1]
  ELSE ws[1] \o <<" ">> \o join_blank(Tail(ws))

\* Chroot._prepare_command without the test for redirects and pipes
prepare_command_unchecked(chr_path_, commands) ==
  [raised |-> "none",
   cmd |-> <<"chroot", chr_path_, "sh", "-c",
             join_blank([i \in 1..Len(commands) |-> quote(commands[i])])>>]

\* Chroot._prepare_command(*commands) of a Chroot with the root chr_path_
prepare_command(chr_path_, commands) ==
  IF \E i \in 1..Len(commands) : commands[i] \in {<<">">>, <<"<">>, <<"|">>}
  THEN [raised |-> "ChrootError", cmd |-> <<>>]
  ELSE [raised |-> "none",
        cmd |-> <<"chroot", chr_path_, "sh", "-c",
                  join_blank([i \in 1..Len(commands) |-> quote(commands[i])])>>]

\* the characters that are operators or start an expansion when sh reads them
\* outside quotes
ShellSpecial == {">", "<", "|", ";", "&", "$", "(", ")", "*", "?", "#"}

RECURSIVE sh_words(_, _, _, _, _)
\* the words sh makes of the rest `line` of the line given to sh -c; mode:
\* "plain" | "single" | "double" quoting, cur: the word being read, inword: a
\* word has begun, words: the words read so far.
\* ok is FALSE when the line is not a plain list of words (an operator, an
\* expansion, an unterminated quote).
sh_words(line, mode, cur, inword, words) ==
  IF line = <<>>
  THEN [ok |-> mode = "plain",
        words |-> IF inword THEN Append(words, cur) ELSE words]
  ELSE LET c == Head(line)
           rest == Tail(line)
       IN  CASE mode = "single" ->
                  IF c = "'" THEN sh_words(rest, "plain", cur, TRUE, words)
                  ELSE sh_words(rest, "single", Append(cur, c), TRUE, words)
             [] mode = "double" ->
                  IF c = "\"" THEN sh_words(rest, "plain", cur, TRUE, words)
                  ELSE IF c = "$" THEN [ok |-> FALSE, words |-> words]
                  ELSE IF c = "\\" /\ rest # <<>>
                          /\ Head(rest) \in {"$", "\"", "\\"}
                  THEN sh_words(Tail(rest), "double", Append(cur, Head(rest)),
                                TRUE, words)
                  ELSE sh_words(rest, "double", Append(cur, c), TRUE, words)
             [] OTHER ->
                  IF c = " "
                  THEN sh_words(rest, "plain", <<>>, FALSE,
                                IF inword THEN Append(words, cur) ELSE words)
                  ELSE IF c = "'" THEN sh_words(rest, "single", cur, TRUE, words)
                  ELSE IF c = "\"" THEN sh_words(rest, "double", cur, TRUE, words)
                  ELSE IF c = "\\"
                  THEN IF rest = <<>> THEN [ok |-> FALSE, words |-> words]
                       ELSE sh_words(Tail(rest), "plain",
                                     Append(cur, Head(rest)), TRUE, words)
                  ELSE IF c \in ShellSpecial THEN [ok |-> FALSE, words |-> words]
                  ELSE sh_words(rest, "plain", Append(cur, c), TRUE, words)

\* the words of a whole line
sh_split(line) == sh_words(line, "plain", <<>>, FALSE, <<>>)

\* the paths a caller hands to is_mounted: a str, a bytes or a pathlib path
Queries ==
  {[kind |-> k, name |-> n] :
     k \in {"str", "bytes", "pathlike"},
     n \in {"/r/proc", "/r/dev/pts", "/r/tmp", "/r"}}

\* a Chroot built by Chroot(root) with neither HOST_ARCH nor FAB_ARCH set and
\* nothing mounted under root before, every mount command succeeding; the
\* program is about to call its run(command) and is_mounted(asked)
ApiInit ==
  \E root \in Roots :
  \E mm \in {MagicMounts_init(MNT_DEFAULT, root, "", "", MNT_FULL_loaded)} :
  \E r \in {MagicMounts_mount(mm.paths, mm.mounted, mm.qemu_arch_static,
                              {}, {}, {}, FALSE)} :
    /\ MNT_FULL = mm.MNT_FULL
    /\ procMounts = r.table
    /\ staged = r.files
    /\ HOST_ARCH = ""
    /\ FAB_ARCH = ""
    /\ pc = "in_scope"
    /\ sessions = 1
    /\ profile = MNT_DEFAULT
    /\ chr_path = root
    /\ paths = mm.paths
    /\ mounted = r.mounted
    /\ qemu_arch_static = mm.qemu_arch_static
    /\ error = "none"
    /\ calls = <<Call("mount", r)>>
    /\ command \in Argvs
    /\ run_pc = "ready"
    /\ run_raised = "none"
    /\ spawned = <<>>
    /\ asked \in Queries
    /\ answer = "none"

\* mnt.run(command): the prepared command goes to subprocess.run unless
\* _prepare_command raised
Run ==
  /\ pc = "in_scope"
  /\ run_pc = "ready"
  /\ \E cmd \in {prepare_command(chr_path, command)} :
       /\ run_raised' = cmd.raised
       /\ spawned' = IF cmd.raised = "none" THEN Append(spawned, cmd.cmd)
                     ELSE spawned
  /\ run_pc' = "done"
  /\ UNCHANGED <<MNT_FULL, procMounts, staged, HOST_ARCH, FAB_ARCH, pc,
                 sessions, profile, chr_path, paths, mounted,
                 qemu_arch_static, error, calls, command, asked, answer>>

\* is_mounted(asked) called by the program
IsMounted ==
  /\ answer = "none"
  /\ answer' = IF is_mounted(procMounts, asked) THEN "True" ELSE "False"
  /\ UNCHANGED <<MNT_FULL, procMounts, staged, HOST_ARCH, FAB_ARCH, pc,
                 sessions, profile, chr_path, paths, mounted,
                 qemu_arch_static, error, calls, command, run_pc, run_raised,
                 spawned, asked>>

ApiNext == Run \/ IsMounted

ApiSpec == ApiInit /\ [][ApiNext]_vars

(* ------------------------- reading the call records -------------------- *)

\* an instance exists (its construction may have raised)
Alive == pc \in {"in_scope", "left", "failed"}

\* the positions of the commands named c in the call record r
At(r, c) == {k \in 1..Len(r.cmds) : r.cmds[k].cmd = c}

\* the targets of the commands named c in the call record r, in issue order
IsQuery(x) == x.cmd = "is_mounted"
IsMount(x) == x.cmd = "mount"
IsUmount(x) == x.cmd = "umount"
TargetSeq(cmds) == [k \in 1..Len(cmds) |-> cmds[k].target]
Queried(r) == TargetSeq(SelectSeq(r.cmds, IsQuery))
MountOrder(r) == TargetSeq(SelectSeq(r.cmds, IsMount))
UmountOrder(r) == TargetSeq(SelectSeq(r.cmds, IsUmount))

\* the targets the call record r mounted itself (its mount command exited 0)
MountedBy(r) == {r.cmds[k].target : k \in {n \in At(r, "mount") : r.cmds[n].ok}}

\* the instance ran a successful mount command for t before the q-th command
\* of its i-th call
OwnMountBefore(i, q, t) ==
  \/ \E j \in 1..(i - 1) : t \in MountedBy(calls[j])
  \/ \E k \in 1..(q - 1) :
       /\ calls[i].cmds[k].cmd = "mount"
       /\ calls[i].cmds[k].target = t
       /\ calls[i].cmds[k].ok

\* the q-th command of the i-th call is mount() finding a target in the mount
\* table that the instance did not mount
ForeignSkip(i, q) ==
  /\ calls[i].op = "mount"
  /\ calls[i].cmds[q].cmd = "is_mounted"
  /\ calls[i].cmds[q].ok
  /\ ~OwnMountBefore(i, q, calls[i].cmds[q].target)

(* -------------------------------- claims ------------------------------- *)

\* C1: umount() never issues an umount command for a target that mount()
\* found already present in the mount table (and skipped) without the
\* instance having mounted it.
C1_OwnedOnlyTeardown ==
  Alive =>
    \A i \in 1..Len(calls) : \A q \in 1..Len(calls[i].cmds) :
      ForeignSkip(i, q) =>
        \A j \in (i + 1)..Len(calls) : \A k \in At(calls[j], "umount") :
          calls[j].cmds[k].target # calls[i].cmds[q].target

\* C2: a flag of self.mounted is true only for a target for which the
\* instance ran a mount command that succeeded.
C2_OwnedMeansMountedByUs ==
  Alive =>
    \A t \in DOMAIN mounted :
      mounted[t] => \E i \in 1..Len(calls) : t \in MountedBy(calls[i])

\* C3: when mount() finds a target present in the mount table, it issues no
\* mount command for it, raises nothing for it and goes on with the next
\* entry of self.paths.
C3_IdempotentMountSkip ==
  Alive =>
    \A i \in 1..Len(calls) :
      calls[i].op = "mount" =>
        \A q \in At(calls[i], "is_mounted") :
          calls[i].cmds[q].ok =>
            LET cmds == calls[i].cmds
                nth == Cardinality({k \in At(calls[i], "is_mounted") : k <= q})
            IN  /\ \A k \in At(calls[i], "mount") :
                     k > q => cmds[k].target # cmds[q].target
                /\ IF nth < Len(paths)
                   THEN /\ q < Len(cmds)
                        /\ cmds[q + 1].cmd = "is_mounted"
                        /\ cmds[q + 1].target = paths[nth + 1][3]
                   ELSE /\ \A k \in (q + 1)..Len(cmds) : cmds[k].cmd = "copy"
                        /\ calls[i].raised \in {"none", "OSError"}

\* C3 witness: mount() skipped a target that was present before the instance
\* mounted anything, and went on to mount the next one itself
C3_Witness ==
  /\ Alive
  /\ \E i \in 1..Len(calls) : \E q \in 1..Len(calls[i].cmds) :
       /\ ForeignSkip(i, q)
       /\ q + 2 <= Len(calls[i].cmds)
       /\ calls[i].cmds[q + 2].cmd = "mount"
       /\ calls[i].cmds[q + 2].ok

\* the step is a call of umount() on the instance, by the program or by
\* __del__; its record is the last one of calls'
UmountCalled ==
  \/ pc = "in_scope" /\ pc' = "in_scope" /\ Len(calls') = Len(calls) + 1
       /\ calls'[Len(calls')].op = "umount"
  \/ Alive /\ pc' = "idle"

\* the targets flagged in self.mounted
Owned == {t \in DOMAIN mounted : mounted[t]}

\* every entry of self.paths was mounted by a command of the call record r
AllMountedBy(r) ==
  /\ r.op = "mount"
  /\ Targets(paths) = MountedBy(r)

\* C4: when the mount command succeeded for every entry, in the order
\* [A, B, C], the next umount() issues its umount commands in the order
\* [C, B, A].
C4_ReverseOrderTeardown ==
  Alive =>
    \A j \in 2..Len(calls) :
      (calls[j].op = "umount" /\ AllMountedBy(calls[j - 1])) =>
        LET mnt == MountOrder(calls[j - 1])
            umnt == UmountOrder(calls[j])
        IN  /\ Len(umnt) = Len(mnt)
            /\ \A k \in 1..Len(mnt) : umnt[k] = mnt[Len(mnt) + 1 - k]

\* C4 witness: five targets mounted by the instance, then unmounted
C4_Witness ==
  /\ pc = "in_scope"
  /\ Len(calls) = 2
  /\ calls[2].op = "umount"
  /\ AllMountedBy(calls[1])
  /\ Len(UmountOrder(calls[2])) >= 3

\* the last call is a mount() that raised MountError, and no target of
\* self.paths was in the mount table before it
MountFailedFromNothing ==
  /\ Alive
  /\ calls # <<>>
  /\ calls[Len(calls)].op = "mount"
  /\ calls[Len(calls)].raised = "MountError"
  /\ Targets(paths) \cap procMounts = MountedBy(calls[Len(calls)])

\* C5: when the mount command of an entry fails and nothing was mounted
\* before, mount() raises MountError at once: the failed command is its last,
\* only the entries up to the failed one were looked at, in order, no umount
\* was issued, and exactly the targets mounted before the failure are flagged.
C5_PartialMountFailure ==
  MountFailedFromNothing =>
    LET r == calls[Len(calls)]
        n == Len(Queried(r))
    IN  /\ r.cmds[Len(r.cmds)].cmd = "mount"
        /\ ~r.cmds[Len(r.cmds)].ok
        /\ n <= Len(paths)
        /\ Queried(r) = [k \in 1..n |-> paths[k][3]]
        /\ \A q \in At(r, "is_mounted") :
             \/ r.cmds[q].ok
             \/ r.cmds[q + 1].cmd = "mount"
                  /\ r.cmds[q + 1].target = r.cmds[q].target
        /\ \A k \in At(r, "mount") :
             r.cmds[k - 1].cmd = "is_mounted" /\ ~r.cmds[k - 1].ok
        /\ At(r, "umount") = {}
        /\ Owned = MountedBy(r)
        /\ \A k \in n..Len(paths) : ~mounted[paths[k][3]]

\* C5 witness: the second mount command of the construction failed, with
\* entries left after it
C5_Witness ==
  /\ MountFailedFromNothing
  /\ pc = "failed"
  /\ Len(MountOrder(calls[1])) = 2
  /\ Cardinality(Owned) = 1
  /\ Len(paths) >= 3

\* C6: an umount() that follows an umount() with no mount() in between issues
\* no umount command.
C6_UnmountIdempotence ==
  [][(UmountCalled /\ calls # <<>> /\ calls[Len(calls)].op = "umount")
       => At(calls'[Len(calls')], "umount") = {}]_vars

\* C6 witness: an umount() that issued umount commands has returned, and the
\* instance is still there for the next one
C6_Witness ==
  /\ pc \in {"in_scope", "left"}
  /\ calls # <<>>
  /\ calls[Len(calls)].op = "umount"
  /\ Len(UmountOrder(calls[Len(calls)])) >= 2
  /\ Owned = {}

C8_ReleaseOnScopeExit ==
  pc = "left" => \E i \in 1..Len(calls) : calls[i].op = "umount"

C10_ProfileOrder ==
  (Alive /\ error # "ChrootError") =>
    [k \in 1..Len(paths) |-> paths[k][3]]
      = [k \in 1..Len(MNT_FULL) |-> join(chr_path, MNT_FULL[k][3])]

\* the number of entries of the sequence s equal to e
Count(s, e) == Cardinality({k \in 1..Len(s) : s[k] = e})

\* C10 as amended: mount() goes through the entries of the profile in
\* ascending order of their (switch, source, target) tuples, compared as
\* python compares tuples of str; for the full profile as shipped: dev,
\* dev/pts, proc, run, sys.
C10_SortedOrder ==
  (Alive /\ error # "ChrootError") =>
    \E resolved \in {[k \in 1..Len(MNT_FULL) |->
                        <<MNT_FULL[k][1], MNT_FULL[k][2],
                          join(chr_path, MNT_FULL[k][3])>>]} :
    LET key(k) == <<paths[k][1], paths[k][2]>>
    IN  /\ Len(paths) = Len(resolved)
        /\ \A k \in 1..Len(paths) :
             Count(paths, paths[k]) = Count(resolved, paths[k])
        /\ \A k \in 1..(Len(paths) - 1) :
             key(k) = key(k + 1) \/ TupleLess(key(k), key(k + 1))
        /\ \A i \in 1..Len(calls) :
             (calls[i].op = "mount" /\ calls[i].raised # "MountError") =>
               Queried(calls[i]) = [k \in 1..Len(paths) |-> paths[k][3]]
        /\ MNT_FULL = MNT_FULL_loaded =>
             [k \in 1..Len(paths) |-> paths[k][3]]
               = [k \in 1..5 |->
                    join(chr_path, <<"dev", "dev/pts", "proc", "run", "sys">>[k])]

\* C10 witness: a construction went through the whole shipped full profile
C10_Witness ==
  /\ pc = "in_scope"
  /\ MNT_FULL = MNT_FULL_loaded
  /\ Len(Queried(calls[1])) = 5
  /\ Queried(calls[1])[1] = join(chr_path, "dev")

\* the argv handed to run has a token that is exactly >, < or |
HasRedirectToken ==
  \E i \in 1..Len(command) :
    Len(command[i]) = 1 /\ command[i][1] \in {">", "<", "|"}

\* C11: run() raises ChrootError, and hands nothing to subprocess.run, for
\* every argv with a token that is exactly >, < or |; an argv without such a
\* token is handed to subprocess.run.
C11_TokenRejection ==
  run_pc = "done" =>
    /\ HasRedirectToken => (run_raised = "ChrootError" /\ spawned = <<>>)
    /\ ~HasRedirectToken => (run_raised = "none" /\ Len(spawned) = 1)

\* C11 witness: run(["ls", ">"]) was rejected
C11_Witness ==
  /\ run_pc = "done"
  /\ command = << <<"l", "s">>, <<">">> >>
  /\ run_raised = "ChrootError"

\* C16: for every argv run() accepts, what it hands to subprocess.run is
\* chroot <root> sh -c <line>, and the words sh makes of <line> are the
\* tokens of the argv, in order, one word per token.
C16_QuotingRoundTrip ==
  (run_pc = "done" /\ run_raised = "none") =>
    /\ Len(spawned) = 1
    /\ Len(spawned[1]) = 5
    /\ spawned[1][1] = "chroot"
    /\ spawned[1][2] = chr_path
    /\ spawned[1][3] = "sh"
    /\ spawned[1][4] = "-c"
    /\ sh_split(spawned[1][5]).ok
    /\ sh_split(spawned[1][5]).words = command

\* C16 witness: run(["a b", "c'd"]) was handed to subprocess.run
C16_Witness ==
  /\ run_pc = "done"
  /\ run_raised = "none"
  /\ command = << <<"a", " ", "b">>, <<"c", "'", "d">> >>
  /\ Len(spawned) = 1

\* C17: is_mounted(path) returns True exactly when a line of the mount table
\* has the path as its second field, whether the path is given as a str, as
\* bytes or as a pathlib path.
C17_IsMountedAllKinds ==
  answer # "none" => (answer = "True" <=> asked.name \in procMounts)

\* C12: a construction with FAB_ARCH set and HOST_ARCH not set raises
\* ChrootError, and has made no mount-table query, mount command or file copy.
C12_ArchConfigError ==
  (Alive /\ FAB_ARCH # "" /\ HOST_ARCH = "") =>
    /\ pc = "failed"
    /\ error = "ChrootError"
    /\ calls = <<>>
    /\ Owned = {}
    /\ staged = {}

\* C12 witness: Chroot() was called with FAB_ARCH=arm64 and no HOST_ARCH
C12_Witness ==
  /\ pc = "failed"
  /\ FAB_ARCH = "arm64"
  /\ HOST_ARCH = ""
  /\ error = "ChrootError"

\* C13: a mount() whose copy of the emulation binary fails raises MountError.
C13_CopyFailureIsMountError ==
  Alive =>
    \A i \in 1..Len(calls) :
      (\E k \in At(calls[i], "copy") : ~calls[i].cmds[k].ok) =>
        calls[i].raised = "MountError"

\* C14: mount() copies the emulation binary only as its last step, after
\* every entry of self.paths was looked at and none of its mount commands
\* failed; umount() removes the copy before its first umount command, and
\* raises nothing when the file is not there.
C14_EmulationBinaryOrdering ==
  \A i \in 1..Len(calls) :
    LET r == calls[i]
    IN  /\ \A k \in At(r, "copy") :
             /\ r.op = "mount"
             /\ k = Len(r.cmds)
             /\ \A n \in At(r, "mount") : r.cmds[n].ok
             /\ Len(Queried(r)) = Len(paths)
        /\ r.raised = "MountError" => At(r, "copy") = {}
        /\ \A k \in At(r, "remove") :
             /\ r.op = "umount"
             /\ k = 1
             /\ r.raised = "none"
        /\ (r.op = "umount" /\ Alive /\ qemu_arch_static # <<>>) =>
             (r.cmds # <<>> /\ r.cmds[1].cmd = "remove")

\* C14 witness: the binary was copied after the mount commands, and the
\* umount() that followed removed it and then issued its umount commands
C14_Witness ==
  /\ pc = "in_scope"
  /\ Len(calls) = 2
  /\ calls[1].cmds[Len(calls[1].cmds)].cmd = "copy"
  /\ calls[1].cmds[Len(calls[1].cmds)].ok
  /\ Len(MountOrder(calls[1])) >= 2
  /\ calls[2].op = "umount"
  /\ calls[2].cmds[1].cmd = "remove"
  /\ Len(UmountOrder(calls[2])) >= 2

\* the target of the binfmt_misc bind mount under the root of the instance
binfmt == join(chr_path, MNT_ARM_ON_AMD[3])

\* both architectures are declared and they differ
Mismatch == FAB_ARCH # "" /\ HOST_ARCH # "" /\ HOST_ARCH # FAB_ARCH

\* C15: the instance has an emulation binary, and the binfmt_misc bind mount
\* among its entries, exactly when HOST_ARCH and FAB_ARCH are both set and
\* differ.
C15_EmulationIffMismatch ==
  (Alive /\ error # "ChrootError") =>
    /\ qemu_arch_static # <<>> <=> Mismatch
    /\ binfmt \in Targets(paths) <=> Mismatch
    /\ ~Mismatch =>
         \A i \in 1..Len(calls) : \A k \in 1..Len(calls[i].cmds) :
           /\ calls[i].cmds[k].cmd # "copy"
           /\ calls[i].cmds[k].cmd = "mount" => calls[i].cmds[k].target # binfmt

\* C18: no construction changes the shipped profiles, and an instance built
\* without an architecture mismatch has no binfmt_misc entry, whatever was
\* constructed before it.
C18_NoProfileLeak ==
  /\ MNT_FULL = MNT_FULL_loaded
  /\ (Alive /\ error # "ChrootError" /\ ~Mismatch) =>
       /\ binfmt \notin Targets(paths)
       /\ \A i \in 1..Len(calls) : binfmt \notin MountedBy(calls[i])

\* the path components of the relative targets of the profiles
components ==
  [t \in {"proc", "sys", "dev", "dev/pts", "run", "proc/sys/fs/binfmt_misc",
          "tmp"} |->
     CASE t = "dev/pts" -> <<"dev", "pts">>
       [] t = "proc/sys/fs/binfmt_misc" -> <<"proc", "sys", "fs", "binfmt_misc">>
       [] OTHER -> <<t>>]

\* the pairs <<a, b>> of targets where the directory a is an ancestor of b
Nested ==
  {<<join(r, a), join(r, b)>> : r \in Roots,
     <<a, b>> \in {p \in (DOMAIN components) \X (DOMAIN components) :
                    /\ Len(components[p[1]]) < Len(components[p[2]])
                    /\ \A j \in 1..Len(components[p[1]]) :
                         components[p[1]][j] = components[p[2]][j]}}

\* C19: of two targets of the instance of which one is an ancestor of the
\* other, the ancestor comes first in self.paths and its mount command is
\* issued first; in umount() the umount command of the descendant is issued
\* first.
C19_NestingOrder ==
  /\ Alive =>
       \A a, b \in 1..Len(paths) :
         <<paths[a][3], paths[b][3]>> \in Nested => a < b
  /\ \A i \in 1..Len(calls) :
       LET r == calls[i]
       IN  /\ \A k, l \in At(r, "mount") :
                <<r.cmds[k].target, r.cmds[l].target>> \in Nested => k < l
           /\ \A k, l \in At(r, "umount") :
                <<r.cmds[k].target, r.cmds[l].target>> \in Nested => l < k

\* C19 witness: dev and dev/pts were mounted by the construction and
\* unmounted by the umount() that followed
C19_Witness ==
  /\ pc = "in_scope"
  /\ Len(calls) = 2
  /\ {join(chr_path, "dev"), join(chr_path, "dev/pts")} \subseteq
       MountedBy(calls[1])
  /\ calls[2].op = "umount"
  /\ \E k, l \in At(calls[2], "umount") :
       /\ calls[2].cmds[k].target = join(chr_path, "dev/pts")
       /\ calls[2].cmds[l].target = join(chr_path, "dev")

\* C20: one mount() issues at most one mount command for a target, and one
\* umount() at most one umount command for a target, also when self.paths
\* has the same entry more than once.
C20_OneCommandPerTarget ==
  \A i \in 1..Len(calls) :
    LET r == calls[i]
    IN  \A k, l \in At(r, "mount") \cup At(r, "umount") :
          (k # l /\ r.cmds[k].cmd = r.cmds[l].cmd) =>
            r.cmds[k].target # r.cmds[l].target

\* C20 witness: self.paths has the binfmt_misc entry twice (it is the second
\* construction with a mismatch); the construction mounted it and the
\* umount() that followed unmounted it
C20_Witness ==
  /\ pc = "in_scope"
  /\ Len(calls) = 2
  /\ Count(paths, <<MNT_ARM_ON_AMD[1], MNT_ARM_ON_AMD[2], binfmt>>) = 2
  /\ binfmt \in MountedBy(calls[1])
  /\ calls[2].op = "umount"
  /\ \E k \in At(calls[2], "umount") : calls[2].cmds[k].target = binfmt

====
